---- MODULE Spec2Model ----
(***************************************************************************)
(* IKEA RODRET multi-click detection (ikea_rodret.py).                     *)
(*                                                                         *)
(* MultiClickOnOffCluster runs on one asyncio event loop.  The model keeps *)
(* the cluster's fields, the loop's FIFO ready queue, the tasks created    *)
(* with asyncio.create_task and the loop clock.  One clock unit is 50 ms,  *)
(* the largest unit in which both CLICK_TIMEOUT (0.35 s) and               *)
(* DUAL_BUTTON_TIMEOUT (0.20 s) are whole numbers.                         *)
(*                                                                         *)
(* Sonoff TRVZB valve calibration (sonoff_trvzb.py).                       *)
(*                                                                         *)
(* CustomSonoffCluster is modelled by its two limits, the cache entries of *)
(* its virtual attributes and a record of the last call made on it.  The   *)
(* two clusters share no state; each specification runs one of them.       *)
(***************************************************************************)
EXTENDS Integers, Sequences, FiniteSets, TLC

VARIABLES
    now,                  \* asyncio.get_event_loop().time(), in 50 ms units
    click_count,          \* self._click_count
    click_timer,          \* self._click_timer: task id per slot, NoTask = None
    last_button_press,    \* self._last_button_press: NoTime = None
    last_dual_press,      \* self._last_dual_press
    first_button_in_dual, \* self._first_button_in_dual
    tasks,                \* the _process_clicks/_process_dual_clicks tasks
    ready,                \* the event loop's ready queue (call_soon order)
    events,               \* listener_event(ZHA_SEND_EVENT, token, {}) calls
    presses,              \* history: the ON/OFF requests received
    cancel_requested,     \* history: cancel() calls made on unfinished tasks
    env,                  \* the request pattern of the environment
    click_timeout,        \* instance attribute click_timeout, if one is set
    dual_button_timeout,  \* instance attribute dual_button_timeout, if set
    requests,             \* the handle_cluster_request calls and what each
                          \* returned: None or the default handler's result
    valve_min_limit,      \* CustomSonoffCluster: self._valve_min_limit
    valve_max_limit,      \* self._valve_max_limit
    attr_cache,           \* self._attr_cache
    call                  \* the last call made on the Sonoff cluster: its
                          \* arguments, what it sent to the device, what it
                          \* passed to the parent's _update_attribute and
                          \* what it returned

vars == <<now, click_count, click_timer, last_button_press, last_dual_press,
          first_button_in_dual, tasks, ready, events, presses,
          cancel_requested, env, click_timeout, dual_button_timeout,
          requests, valve_min_limit, valve_max_limit, attr_cache, call>>

\* the state of the RODRET cluster and of its event loop
rodret_vars == <<now, click_count, click_timer, last_button_press,
                 last_dual_press, first_button_in_dual, tasks, ready, events,
                 presses, cancel_requested, click_timeout,
                 dual_button_timeout, requests>>

\* the state of the Sonoff TRVZB cluster
valve_vars == <<valve_min_limit, valve_max_limit, attr_cache, call>>

----------------------------------------------------------------------------
(* Program constants *)

CLICK_TIMEOUT == 7
DUAL_BUTTON_TIMEOUT == 4

SHORT_PRESS == "remote_button_short_press"
DOUBLE_PRESS == "remote_button_double_press"
TRIPLE_PRESS == "remote_button_triple_press"
QUADRUPLE_PRESS == "remote_button_quadruple_press"
QUINTUPLE_PRESS == "remote_button_quintuple_press"
COMMAND_BUTTON_DOUBLE == "button_double"

ON_COMMAND_ID == 1
OFF_COMMAND_ID == 0
TOGGLE_COMMAND_ID == 2

\* the timeouts the test fixture sets on the instance, 45 ms and 15 ms, on
\* the model clock: shorter than the module's, three to one
TEST_CLICK_TIMEOUT == 6
TEST_DUAL_BUTTON_TIMEOUT == 2

\* the pause the tests leave between the presses of a rapid gesture
QUICK_PRESS_INTERVAL == 1

COMMAND_ON == "on"
COMMAND_OFF == "off"

\* a table without the triggers of the two-button sequences
device_automation_triggers_NoSequences ==
    {[press_type |-> p, subtype |-> b, command |-> b \o "_" \o p] :
         p \in {SHORT_PRESS, DOUBLE_PRESS, TRIPLE_PRESS, QUADRUPLE_PRESS,
                QUINTUPLE_PRESS},
         b \in {COMMAND_ON, COMMAND_OFF}}
    \cup {[press_type |-> SHORT_PRESS, subtype |-> COMMAND_BUTTON_DOUBLE,
           command |-> COMMAND_BUTTON_DOUBLE],
          [press_type |-> DOUBLE_PRESS, subtype |-> COMMAND_BUTTON_DOUBLE,
           command |-> COMMAND_BUTTON_DOUBLE \o "_" \o DOUBLE_PRESS],
          [press_type |-> TRIPLE_PRESS, subtype |-> COMMAND_BUTTON_DOUBLE,
           command |-> COMMAND_BUTTON_DOUBLE \o "_" \o TRIPLE_PRESS]}

\* IkeaRodretRemoteMultiClick.device_automation_triggers: the key
\* (press_type, subtype) and the command of each trigger
device_automation_triggers ==
    {[press_type |-> p, subtype |-> b, command |-> b \o "_" \o p] :
         p \in {SHORT_PRESS, DOUBLE_PRESS, TRIPLE_PRESS, QUADRUPLE_PRESS,
                QUINTUPLE_PRESS},
         b \in {COMMAND_ON, COMMAND_OFF}}
    \cup {[press_type |-> SHORT_PRESS, subtype |-> COMMAND_BUTTON_DOUBLE,
           command |-> COMMAND_BUTTON_DOUBLE],
          [press_type |-> DOUBLE_PRESS, subtype |-> COMMAND_BUTTON_DOUBLE,
           command |-> COMMAND_BUTTON_DOUBLE \o "_" \o DOUBLE_PRESS],
          [press_type |-> TRIPLE_PRESS, subtype |-> COMMAND_BUTTON_DOUBLE,
           command |-> COMMAND_BUTTON_DOUBLE \o "_" \o TRIPLE_PRESS],
          [press_type |-> SHORT_PRESS, subtype |-> "on_off",
           command |-> "on_off"],
          [press_type |-> SHORT_PRESS, subtype |-> "off_on",
           command |-> "off_on"]}

TriggerCommands == {t.command : t \in device_automation_triggers}

(* Bounds of the model *)

MaxPresses == 3        \* presses of a free-timing environment
MaxIdle == 8           \* the clock stops this long after the last press
MaxPacedPresses == 8   \* presses of a paced environment
PacedGapShort == 3     \* the two gaps a paced environment leaves: one
PacedGapLong == 5      \* inside the dual window, one past it
MaxOpenPresses == 2    \* presses of an open environment
MaxPassThrough == 1    \* its requests that are not button presses

----------------------------------------------------------------------------
(* Values *)

Buttons == {"on", "off"}
Slots == {"on", "off", "dual"}
NoTime == -1
Unset == -1
NoTask == 0
NoButton == "none"

Abs(x) == IF x < 0 THEN -x ELSE x

\* other_button = "off" if button == "on" else "on"
OtherButton(button) == IF button = "on" THEN "off" ELSE "on"

\* the command ids of the OnOff cluster: off, on, toggle
CommandIds == {OFF_COMMAND_ID, ON_COMMAND_ID, TOGGLE_COMMAND_ID}

\* an endpoint without a device IEEE: only the hasattr test fails
IsButtonPress_AnyEndpoint(command_id, on_device) ==
    command_id \in {ON_COMMAND_ID, OFF_COMMAND_ID}

\* hasattr(self.endpoint, 'device') and hasattr(self.endpoint.device,
\* 'ieee'), and hdr.command_id is 0x01 or 0x00
IsButtonPress(command_id, on_device) ==
    on_device /\ command_id \in {ON_COMMAND_ID, OFF_COMMAND_ID}

\* command 0x01 taken for the OFF button and 0x00 for the ON button
ButtonOf_Inverted(command_id) ==
    IF command_id = ON_COMMAND_ID THEN "off" ELSE "on"

\* hdr.command_id == 0x01 is the ON button, 0x00 the OFF button
ButtonOf(command_id) == IF command_id = ON_COMMAND_ID THEN "on" ELSE "off"

HandleClickEntry(button) ==
    [op |-> "handle_click", button |-> button, task |-> NoTask]

HandleDualClickEntry ==
    [op |-> "handle_dual_click", button |-> "dual", task |-> NoTask]

StepEntry(slot, id) == [op |-> "step", button |-> slot, task |-> id]

\* asyncio.create_task(self._process_clicks(button)): a task that has not
\* run yet; its first step is queued with call_soon
NewTask(slot) ==
    [coro |-> IF slot = "dual" THEN "process_dual_clicks" ELSE "process_clicks",
     button |-> slot, state |-> "new", due |-> NoTime]

LiveStates == {"new", "sleeping", "woken"}

\* cancel() that is lost on a task that has not started yet
CancelTask_NotBeforeStart(ts, id) ==
    IF id # NoTask /\ ts[id].state \in {"sleeping", "woken"}
    THEN [ts EXCEPT ![id].state = "cancelled"]
    ELSE ts

\* cancel() that is lost once the sleep has been resolved
CancelTask_NotAfterDue(ts, id) ==
    IF id # NoTask /\ ts[id].state \in {"new", "sleeping"}
    THEN [ts EXCEPT ![id].state = "cancelled"]
    ELSE ts

\* Task.cancel(): a finished task is left alone; a live one never runs the
\* code after its await again (CancelledError is raised at the await)
CancelTask(ts, id) ==
    IF id # NoTask /\ ts[id].state \in LiveStates
    THEN [ts EXCEPT ![id].state = "cancelled"]
    ELSE ts

\* cancelling a task suspended in asyncio.sleep cancels the sleep future,
\* which queues the step that delivers CancelledError
CancelWakeup(ts, id) ==
    IF id # NoTask /\ ts[id].state = "sleeping"
    THEN <<StepEntry(ts[id].button, id)>>
    ELSE <<>>

\* history of a cancel() call: the task and the state the call found it in
CancelRequest(ts, id) ==
    IF id # NoTask /\ ts[id].state \in LiveStates
    THEN {[task |-> id, state |-> ts[id].state]}
    ELSE {}

\* a dual window one clock unit too narrow
IsDualPress_Narrow(time_diff) == Abs(time_diff) + 1 < DUAL_BUTTON_TIMEOUT

\* abs(time_diff) < DUAL_BUTTON_TIMEOUT
IsDualPress(time_diff) == Abs(time_diff) < DUAL_BUTTON_TIMEOUT

\* a sequential window without its upper limit
IsSequentialPress_NoUpperBound(time_diff) == time_diff > DUAL_BUTTON_TIMEOUT

\* time_diff > DUAL_BUTTON_TIMEOUT and time_diff < CLICK_TIMEOUT
IsSequentialPress(time_diff) ==
    time_diff > DUAL_BUTTON_TIMEOUT /\ time_diff < CLICK_TIMEOUT

\* a chain that counts one click too many
ClickTokens_OffByOne(button, count) ==
    IF count = 0 THEN <<button \o "_" \o SHORT_PRESS>>
    ELSE IF count = 1 THEN <<button \o "_" \o DOUBLE_PRESS>>
    ELSE IF count = 2 THEN <<button \o "_" \o TRIPLE_PRESS>>
    ELSE IF count = 3 THEN <<button \o "_" \o QUADRUPLE_PRESS>>
    ELSE <<button \o "_" \o QUINTUPLE_PRESS>>

\* a chain whose last branch tests count == 5
ClickTokens_NoSaturation(button, count) ==
    IF count = 1 THEN <<button \o "_" \o SHORT_PRESS>>
    ELSE IF count = 2 THEN <<button \o "_" \o DOUBLE_PRESS>>
    ELSE IF count = 3 THEN <<button \o "_" \o TRIPLE_PRESS>>
    ELSE IF count = 4 THEN <<button \o "_" \o QUADRUPLE_PRESS>>
    ELSE IF count = 5 THEN <<button \o "_" \o QUINTUPLE_PRESS>>
    ELSE <<>>

\* the if/elif chain of _process_clicks with the _emit_*_click it calls
ClickTokens(button, count) ==
    IF count = 1 THEN <<button \o "_" \o SHORT_PRESS>>
    ELSE IF count = 2 THEN <<button \o "_" \o DOUBLE_PRESS>>
    ELSE IF count = 3 THEN <<button \o "_" \o TRIPLE_PRESS>>
    ELSE IF count = 4 THEN <<button \o "_" \o QUADRUPLE_PRESS>>
    ELSE IF count >= 5 THEN <<button \o "_" \o QUINTUPLE_PRESS>>
    ELSE <<>>

\* a chain whose last branch tests count == 3
DualTokens_NoSaturation(count) ==
    IF count = 1 THEN <<COMMAND_BUTTON_DOUBLE>>
    ELSE IF count = 2 THEN <<COMMAND_BUTTON_DOUBLE \o "_" \o DOUBLE_PRESS>>
    ELSE IF count = 3 THEN <<COMMAND_BUTTON_DOUBLE \o "_" \o TRIPLE_PRESS>>
    ELSE <<>>

\* the if/elif chain of _process_dual_clicks with the _emit_dual_* it calls
DualTokens(count) ==
    IF count = 1 THEN <<COMMAND_BUTTON_DOUBLE>>
    ELSE IF count = 2 THEN <<COMMAND_BUTTON_DOUBLE \o "_" \o DOUBLE_PRESS>>
    ELSE IF count >= 3 THEN <<COMMAND_BUTTON_DOUBLE \o "_" \o TRIPLE_PRESS>>
    ELSE <<>>

\* the two names in the wrong order
SequentialToken_Swapped(first_button, second_button) ==
    second_button \o "_" \o first_button

\* a sequential token that always names the ON button first
SequentialToken_OnFirst(first_button, second_button) == "on" \o "_" \o "off"

\* event_name = f"{first_button}_{second_button}"
SequentialToken(first_button, second_button) ==
    first_button \o "_" \o second_button

\* self.listener_event(ZHA_SEND_EVENT, token, {}) for each token; the event
\* is logged with the loop time and the task that made the call
Emitted(tokens, id) ==
    events \o [i \in 1..Len(tokens) |->
                  [token |-> tokens[i], time |-> now, task |-> id]]

----------------------------------------------------------------------------
(* Environment *)

LastPressTime == IF presses = <<>> THEN 0 ELSE presses[Len(presses)].time

PacedGaps == {PacedGapShort, PacedGapLong}

\* the gesture a user makes for a trigger, as the tests make it: rapid
\* presses of one button, rapid ON/OFF pairs, or one button and then the
\* other after the dual window; each press with the pause before it
PressLevel(press_type) ==
    IF press_type = SHORT_PRESS THEN 1
    ELSE IF press_type = DOUBLE_PRESS THEN 2
    ELSE IF press_type = TRIPLE_PRESS THEN 3
    ELSE IF press_type = QUADRUPLE_PRESS THEN 4
    ELSE 5

Gesture(t) ==
    IF t.subtype \in Buttons
    THEN [i \in 1..PressLevel(t.press_type) |->
              [button |-> t.subtype, gap |-> QUICK_PRESS_INTERVAL]]
    ELSE IF t.subtype = COMMAND_BUTTON_DOUBLE
    THEN [i \in 1..(2 * PressLevel(t.press_type)) |->
              [button |-> IF i % 2 = 1 THEN "on" ELSE "off",
               gap |-> QUICK_PRESS_INTERVAL]]
    ELSE <<[button |-> IF t.subtype = "on_off" THEN "on" ELSE "off",
            gap |-> QUICK_PRESS_INTERVAL],
           [button |-> IF t.subtype = "on_off" THEN "off" ELSE "on",
            gap |-> DUAL_BUTTON_TIMEOUT + QUICK_PRESS_INTERVAL]>>

\* an environment named after a trigger command makes that gesture
Scripted == env \in TriggerCommands

Script ==
    Gesture(CHOOSE t \in device_automation_triggers : t.command = env)

\* the next press of the gesture, and whether its instant has come
ScriptPending == Scripted /\ Len(presses) < Len(Script)

ScriptDue ==
    /\ ScriptPending
    /\ presses # <<>> => now - LastPressTime >= Script[Len(presses) + 1].gap

\* the requests whose handling returned the default handler's result
PassedThrough == {i \in 1..Len(requests) : requests[i].returned = "super"}

\* a free environment presses at any instant; a paced one leaves one of two
\* gaps, both shorter than CLICK_TIMEOUT, between consecutive presses; an
\* open one also sends other commands and requests on a group endpoint
CanPress(button) ==
    IF env = "free" THEN Len(presses) < MaxPresses
    ELSE IF env = "open" THEN Len(presses) < MaxOpenPresses
    ELSE IF Scripted
    THEN ScriptDue /\ button = Script[Len(presses) + 1].button
    ELSE /\ Len(presses) < MaxPacedPresses
         /\ presses # <<>> => now - LastPressTime \in PacedGaps

CanRequest(command_id, on_device) ==
    IF IsButtonPress(command_id, on_device)
    THEN CanPress(ButtonOf(command_id))
    ELSE env = "open" /\ Cardinality(PassedThrough) < MaxPassThrough

----------------------------------------------------------------------------
(* Sonoff TRVZB valve calibration (sonoff_trvzb.py): CustomSonoffCluster    *)
(* keeps two calibration limits and a virtual valve position in attributes *)
(* that exist only on the host, and converts between the virtual position  *)
(* and the opening degree of the device.                                   *)

\* AttributeDefs: the attribute ids the cluster tells apart, and child_lock
\* for the attributes it passes on as they are
child_lock_id == 0                   \* 0x0000
valve_opening_degree_id == 24587     \* 0x600B
valve_closing_degree_id == 24588     \* 0x600C
valve_min_limit_id == 28672          \* 0x7000
valve_max_limit_id == 28673          \* 0x7001
virtual_valve_position_id == 28674   \* 0x7002

\* virtual_attrs of read_attributes
virtual_attrs ==
    {valve_min_limit_id, valve_max_limit_id, virtual_valve_position_id}

\* the attributes whose cache entry the model keeps: the cluster reads
\* no other entry of the cache
CachedAttrs == virtual_attrs

\* the result of a call that has made none of the calls the record names
NoCall(op) ==
    [op |-> op, attributes |-> <<>>, device_write |-> {},
     device_read |-> <<>>, updates |-> <<>>, returned |-> "None",
     records |-> <<>>]

\* CustomSonoffCluster.__init__
InitSonoff ==
    /\ valve_min_limit = 0
    /\ valve_max_limit = 100
    /\ attr_cache = [a \in CachedAttrs |->
                        IF a = valve_max_limit_id THEN valve_max_limit
                        ELSE IF a = valve_min_limit_id THEN valve_min_limit
                        ELSE IF a = virtual_valve_position_id THEN 0
                        ELSE Unset]
    /\ call = NoCall("__init__")

----------------------------------------------------------------------------
(* Initial state: MultiClickOnOffCluster.__init__ on an idle loop *)

InitCluster ==
    /\ now = 0
    /\ click_count = [s \in Slots |-> 0]
    /\ click_timer = [s \in Slots |-> NoTask]
    /\ last_button_press = [b \in Buttons |-> NoTime]
    /\ last_dual_press = NoTime
    /\ first_button_in_dual = NoButton
    /\ tasks = <<>>
    /\ ready = <<>>
    /\ events = <<>>
    /\ presses = <<>>
    /\ cancel_requested = {}
    /\ requests = <<>>

\* no instance attribute overrides the module's timeouts
NoOverrides == click_timeout = Unset /\ dual_button_timeout = Unset

Init == InitCluster /\ NoOverrides /\ InitSonoff /\ env = "free"

InitPaced == InitCluster /\ NoOverrides /\ InitSonoff /\ env = "paced"

\* a user who makes the gesture of one of the triggers, or presses freely
InitGesture ==
    /\ InitCluster
    /\ NoOverrides
    /\ InitSonoff
    /\ env \in TriggerCommands \cup {"free"}

\* the instance as the test fixture builds it: cluster.click_timeout and
\* cluster.dual_button_timeout are set after construction
InitOpen ==
    /\ InitCluster
    /\ click_timeout = TEST_CLICK_TIMEOUT
    /\ dual_button_timeout = TEST_DUAL_BUTTON_TIMEOUT
    /\ InitSonoff
    /\ env = "open"

----------------------------------------------------------------------------
(* handle_cluster_request: an ON or OFF command on a device endpoint queues *)
(* _handle_click(button) with asyncio.create_task and returns None; any     *)
(* other request returns super().handle_cluster_request(hdr, args)          *)

handle_cluster_request(command_id, on_device) ==
    /\ CanRequest(command_id, on_device)
    /\ IF IsButtonPress(command_id, on_device)
       THEN /\ presses' = Append(presses, [button |-> ButtonOf(command_id),
                                           time |-> now])
            /\ ready' = Append(ready, HandleClickEntry(ButtonOf(command_id)))
            /\ requests' = Append(requests, [command_id |-> command_id,
                                             on_device |-> on_device,
                                             returned |-> "None"])
       ELSE /\ requests' = Append(requests, [command_id |-> command_id,
                                             on_device |-> on_device,
                                             returned |-> "super"])
            /\ UNCHANGED <<presses, ready>>
    /\ UNCHANGED <<now, click_count, click_timer, last_button_press,
                   last_dual_press, first_button_in_dual, tasks, events,
                   cancel_requested, env, click_timeout, dual_button_timeout>>
    /\ UNCHANGED valve_vars

\* a reset that forgets the OFF button
ResetButtons_OnOnly(count) == [count EXCEPT !["on"] = 0]

\* self._click_count["on"] = 0; self._click_count["off"] = 0
ResetButtons(count) == [count EXCEPT !["on"] = 0, !["off"] = 0]

(* The fields of the cluster that _handle_click reads and writes *)

Cluster ==
    [click_count |-> click_count,
     click_timer |-> click_timer,
     last_button_press |-> last_button_press,
     first_button_in_dual |-> first_button_in_dual,
     tasks |-> tasks]

(* _handle_click(button) on the cluster fields st: the fields it leaves,   *)
(* the loop entries it queues, the tokens it emits and the cancel() calls *)
(* it makes                                                                *)

handle_click_state(button, st) ==
    LET other_button == OtherButton(button)
        count1 == [st.click_count EXCEPT ![button] = @ + 1]
        press1 == [st.last_button_press EXCEPT ![button] = now]
        time_diff == press1[button] - press1[other_button]
        \* cancel the timer of this button, then the timer of the other one
        ts1 == CancelTask(st.tasks, st.click_timer[button])
        ts2 == CancelTask(ts1, st.click_timer[other_button])
        wakeups == CancelWakeup(st.tasks, st.click_timer[button])
                       \o CancelWakeup(ts1, st.click_timer[other_button])
        cancel_calls == CancelRequest(st.tasks, st.click_timer[button])
                        \cup CancelRequest(ts1, st.click_timer[other_button])
        id == Len(st.tasks) + 1
    IN  IF press1[other_button] # NoTime /\ IsDualPress(time_diff)
        THEN [click_count |-> ResetButtons(count1),
              click_timer |-> st.click_timer,
              last_button_press |-> [b \in Buttons |-> NoTime],
              first_button_in_dual |->
                  (IF press1["on"] < press1["off"] THEN "on" ELSE "off"),
              tasks |-> ts2,
              queued |-> wakeups \o <<HandleDualClickEntry>>,
              emitted |-> <<>>,
              requests |-> cancel_calls]
        ELSE IF press1[other_button] # NoTime /\ IsSequentialPress(time_diff)
        THEN [click_count |-> ResetButtons(count1),
              click_timer |-> st.click_timer,
              last_button_press |-> [b \in Buttons |-> NoTime],
              first_button_in_dual |-> st.first_button_in_dual,
              tasks |-> ts2,
              queued |-> wakeups,
              emitted |-> <<SequentialToken(other_button, button)>>,
              requests |-> cancel_calls]
        ELSE [click_count |-> count1,
              click_timer |-> [st.click_timer EXCEPT ![button] = id],
              last_button_press |-> press1,
              first_button_in_dual |-> st.first_button_in_dual,
              tasks |-> Append(ts1, NewTask(button)),
              queued |-> CancelWakeup(st.tasks, st.click_timer[button])
                             \o <<StepEntry(button, id)>>,
              emitted |-> <<>>,
              requests |-> CancelRequest(st.tasks, st.click_timer[button])]

(* _handle_click(button), one loop step: it has no await *)

handle_click(button) ==
    LET r == handle_click_state(button, Cluster)
    IN  /\ click_count' = r.click_count
        /\ click_timer' = r.click_timer
        /\ last_button_press' = r.last_button_press
        /\ first_button_in_dual' = r.first_button_in_dual
        /\ tasks' = r.tasks
        /\ ready' = Tail(ready) \o r.queued
        /\ events' = Emitted(r.emitted, NoTask)
        /\ cancel_requested' = cancel_requested \cup r.requests

HandleClick ==
    /\ ready # <<>>
    /\ Head(ready).op = "handle_click"
    /\ handle_click(Head(ready).button)
    /\ UNCHANGED <<now, last_dual_press, presses, env,
                   click_timeout, dual_button_timeout, requests>>
    /\ UNCHANGED valve_vars

(* _handle_dual_click, one loop step *)

HandleDualClick ==
    /\ ready # <<>>
    /\ Head(ready).op = "handle_dual_click"
    /\ click_count' = [click_count EXCEPT !["dual"] = @ + 1]
    /\ last_dual_press' = now
    /\ tasks' = Append(CancelTask(tasks, click_timer["dual"]), NewTask("dual"))
    /\ click_timer' = [click_timer EXCEPT !["dual"] = Len(tasks) + 1]
    /\ ready' = Tail(ready)
                   \o CancelWakeup(tasks, click_timer["dual"])
                   \o <<StepEntry("dual", Len(tasks) + 1)>>
    /\ cancel_requested' =
           cancel_requested \cup CancelRequest(tasks, click_timer["dual"])
    /\ UNCHANGED <<now, last_button_press, first_button_in_dual, events,
                   presses, env,
                   click_timeout, dual_button_timeout, requests>>
    /\ UNCHANGED valve_vars

(* First step of _process_clicks / _process_dual_clicks: the task runs up *)
(* to await asyncio.sleep(CLICK_TIMEOUT)                                   *)

\* a sleep one time unit longer than CLICK_TIMEOUT
SleepDue_Late == now + CLICK_TIMEOUT + 1

SleepDue == now + CLICK_TIMEOUT

ProcessStart ==
    /\ ready # <<>>
    /\ Head(ready).op = "step"
    /\ tasks[Head(ready).task].state = "new"
    /\ tasks' = [tasks EXCEPT ![Head(ready).task].state = "sleeping",
                              ![Head(ready).task].due = SleepDue]
    /\ ready' = Tail(ready)
    /\ UNCHANGED <<now, click_count, click_timer, last_button_press,
                   last_dual_press, first_button_in_dual, events, presses,
                   cancel_requested, env,
                   click_timeout, dual_button_timeout, requests>>
    /\ UNCHANGED valve_vars

(* The loop clock reaches the deadline of a sleep: the sleep future is *)
(* resolved and the step that resumes the task is queued               *)

TimerDue(id) ==
    /\ tasks[id].state = "sleeping"
    /\ tasks[id].due <= now
    /\ tasks' = [tasks EXCEPT ![id].state = "woken"]
    /\ ready' = Append(ready, StepEntry(tasks[id].button, id))
    /\ UNCHANGED <<now, click_count, click_timer, last_button_press,
                   last_dual_press, first_button_in_dual, events, presses,
                   cancel_requested, env,
                   click_timeout, dual_button_timeout, requests>>
    /\ UNCHANGED valve_vars

\* a timer body that leaves the count as it was
ClearedCount_Kept(count, slot) == count

\* a timer body that resets every slot's count
ClearedCount_All(count, slot) == [s \in Slots |-> 0]

\* a dual timer body that leaves the dual count as it was
ClearedCount_OnlyButtons(count, slot) ==
    IF slot = "dual" THEN count ELSE [count EXCEPT ![slot] = 0]

\* self._click_count[slot] = 0 at the end of a timer body
ClearedCount(count, slot) == [count EXCEPT ![slot] = 0]

(* _process_clicks(button) after the sleep *)

ProcessClicks ==
    /\ ready # <<>>
    /\ Head(ready).op = "step"
    /\ tasks[Head(ready).task].state = "woken"
    /\ tasks[Head(ready).task].coro = "process_clicks"
    /\ LET button == Head(ready).button
       IN  /\ events' = Emitted(ClickTokens(button, click_count[button]),
                               Head(ready).task)
           /\ click_count' = ClearedCount(click_count, button)
           /\ click_timer' = [click_timer EXCEPT ![button] = NoTask]
    /\ tasks' = [tasks EXCEPT ![Head(ready).task].state = "done"]
    /\ ready' = Tail(ready)
    /\ UNCHANGED <<now, last_button_press, last_dual_press,
                   first_button_in_dual, presses, cancel_requested, env,
                   click_timeout, dual_button_timeout, requests>>
    /\ UNCHANGED valve_vars

(* _process_dual_clicks after the sleep *)

ProcessDualClicks ==
    /\ ready # <<>>
    /\ Head(ready).op = "step"
    /\ tasks[Head(ready).task].state = "woken"
    /\ tasks[Head(ready).task].coro = "process_dual_clicks"
    /\ events' = Emitted(DualTokens(click_count["dual"]), Head(ready).task)
    /\ click_count' = ClearedCount(click_count, "dual")
    /\ click_timer' = [click_timer EXCEPT !["dual"] = NoTask]
    /\ tasks' = [tasks EXCEPT ![Head(ready).task].state = "done"]
    /\ ready' = Tail(ready)
    /\ UNCHANGED <<now, last_button_press, last_dual_press,
                   first_button_in_dual, presses, cancel_requested, env,
                   click_timeout, dual_button_timeout, requests>>
    /\ UNCHANGED valve_vars

(* The step of a cancelled task: except asyncio.CancelledError: pass *)

ProcessCancelled ==
    /\ ready # <<>>
    /\ Head(ready).op = "step"
    /\ tasks[Head(ready).task].state = "cancelled"
    /\ tasks' = [tasks EXCEPT ![Head(ready).task].state = "done"]
    /\ ready' = Tail(ready)
    /\ UNCHANGED <<now, click_count, click_timer, last_button_press,
                   last_dual_press, first_button_in_dual, events, presses,
                   cancel_requested, env,
                   click_timeout, dual_button_timeout, requests>>
    /\ UNCHANGED valve_vars

(* The loop clock advances when the loop has nothing to run: no callback *)
(* is ready and no sleep has reached its deadline                         *)

Tick ==
    /\ ready = <<>>
    /\ \A id \in 1..Len(tasks) :
           tasks[id].state = "sleeping" => tasks[id].due > now
    /\ presses # <<>>
    /\ now - LastPressTime < MaxIdle
    /\ ~ScriptDue
    /\ now' = now + 1
    /\ UNCHANGED <<click_count, click_timer, last_button_press,
                   last_dual_press, first_button_in_dual, tasks, ready,
                   events, presses, cancel_requested, env,
                   click_timeout, dual_button_timeout, requests>>
    /\ UNCHANGED valve_vars

Next ==
    \/ \E command_id \in CommandIds, on_device \in BOOLEAN :
           handle_cluster_request(command_id, on_device)
    \/ HandleClick
    \/ HandleDualClick
    \/ ProcessStart
    \/ \E id \in 1..Len(tasks) : TimerDue(id)
    \/ ProcessClicks
    \/ ProcessDualClicks
    \/ ProcessCancelled
    \/ Tick

Spec == Init /\ [][Next]_vars

SpecPaced == InitPaced /\ [][Next]_vars

SpecOpen == InitOpen /\ [][Next]_vars

\* the loop runs every callback that is ready and every timer that is due,
\* and the user finishes the gesture
SpecGesture == InitGesture /\ [][Next]_vars /\ WF_vars(Next)

----------------------------------------------------------------------------
TypeOK ==
    /\ now \in Nat
    /\ \A s \in Slots : click_count[s] \in Nat /\ click_timer[s] \in 0..Len(tasks)

----------------------------------------------------------------------------
(* The press history and the emitted tokens *)

NumPresses == Len(presses)

Gap(i) == presses[i + 1].time - presses[i].time

Tokens == [i \in 1..Len(events) |-> events[i].token]

\* an idle period longer than CLICK_TIMEOUT has followed the last press
Settled == presses # <<>> /\ now - LastPressTime > CLICK_TIMEOUT

\* the history is one sequence: every gap is shorter than CLICK_TIMEOUT
OneSequence ==
    presses # <<>> /\ \A i \in 1..(NumPresses - 1) : Gap(i) < CLICK_TIMEOUT

SameButton(i, j) == \A k \in i..j : presses[k].button = presses[i].button

BothButtons == \E i, j \in 1..NumPresses : presses[i].button # presses[j].button

Min(a, b) == IF a < b THEN a ELSE b

OrdinalNames ==
    <<SHORT_PRESS, DOUBLE_PRESS, TRIPLE_PRESS, QUADRUPLE_PRESS, QUINTUPLE_PRESS>>

RepeatToken(button, n) == button \o "_" \o OrdinalNames[Min(n, 5)]

RECURSIVE JoinedButtons(_)
JoinedButtons(k) ==
    IF k = 1 THEN presses[1].button
    ELSE JoinedButtons(k - 1) \o "_" \o presses[k].button

\* presses 2i-1 and 2i are one press of each button
PairAt(i) == presses[2 * i - 1].button # presses[2 * i].button

----------------------------------------------------------------------------
\* C1: a press sequence whose gaps are all shorter than CLICK_TIMEOUT,
\* followed by an idle period longer than CLICK_TIMEOUT, has produced
\* exactly one token.
C1_ExactlyOneToken == (OneSequence /\ Settled) => Len(events) = 1

\* C2: one press of a button followed by an idle period longer than
\* CLICK_TIMEOUT produces exactly one emission, the short-press token of
\* that button.
C2_SinglePress ==
    (NumPresses = 1 /\ Settled) =>
        Tokens = <<presses[1].button \o "_" \o "remote_button_short_press">>

C2_Witness ==
    /\ NumPresses = 1
    /\ Settled
    /\ presses[1].button = "off"
    /\ Len(events) = 1

\* C3: n presses of one button with every gap shorter than CLICK_TIMEOUT,
\* followed by idle, produce exactly one emission, the repeat token of
\* min(n, 5).
C3_RepeatSaturates ==
    (OneSequence /\ SameButton(1, NumPresses) /\ Settled) =>
        Tokens = <<RepeatToken(presses[1].button, NumPresses)>>

C3_Witness ==
    /\ OneSequence
    /\ SameButton(1, NumPresses)
    /\ Settled
    /\ NumPresses > 5
    /\ Len(events) = 1

\* C4: a press of one button and a press of the other button less than
\* DUAL_BUTTON_TIMEOUT later, in either order, then idle, produce exactly
\* one emission, the token button_double.
C4_DualSingle ==
    (NumPresses = 2 /\ PairAt(1) /\ Gap(1) < DUAL_BUTTON_TIMEOUT /\ Settled) =>
        Tokens = <<"button_double">>

C4_Witness ==
    /\ NumPresses = 2
    /\ presses[1].button = "off"
    /\ presses[2].button = "on"
    /\ Gap(1) = DUAL_BUTTON_TIMEOUT - 1
    /\ Settled
    /\ Len(events) = 1

\* C5: a press of button X and a press of the other button Y after a gap
\* strictly between DUAL_BUTTON_TIMEOUT and CLICK_TIMEOUT, then idle,
\* produce exactly one emission, the token X_Y.
C5_Sequential ==
    (/\ NumPresses = 2
     /\ PairAt(1)
     /\ Gap(1) > DUAL_BUTTON_TIMEOUT
     /\ Gap(1) < CLICK_TIMEOUT
     /\ Settled) =>
        Tokens = <<IF presses[1].button = "on" THEN "on_off" ELSE "off_on">>

C5_Witness ==
    /\ NumPresses = 2
    /\ presses[1].button = "on"
    /\ presses[2].button = "off"
    /\ Gap(1) = CLICK_TIMEOUT - 1
    /\ Settled
    /\ Len(events) = 1

\* C6: two two-button pairs, each with a gap shorter than
\* DUAL_BUTTON_TIMEOUT inside the pair and a gap shorter than CLICK_TIMEOUT
\* between the pairs, then idle, produce exactly one token, the dual double
\* token; three such pairs produce the dual triple token.
C6_DualRepeat ==
    \A n \in {2, 3} :
        (/\ NumPresses = 2 * n
         /\ \A i \in 1..n : PairAt(i) /\ Gap(2 * i - 1) < DUAL_BUTTON_TIMEOUT
         /\ \A i \in 1..(n - 1) : Gap(2 * i) < CLICK_TIMEOUT
         /\ Settled) =>
            Tokens = <<IF n = 2
                       THEN "button_double_remote_button_double_press"
                       ELSE "button_double_remote_button_triple_press">>

\* C7: two sequences separated by an idle period longer than CLICK_TIMEOUT
\* are classified independently: the tokens emitted are the token of the
\* first sequence, emitted before the second sequence starts, followed by
\* the token of the second sequence.
InternalGapsBelow(i, j, limit) == \A k \in i..(j - 1) : Gap(k) < limit

\* the sequences whose token is fixed by C2..C5
Recognised(i, j) ==
    \/ SameButton(i, j) /\ InternalGapsBelow(i, j, CLICK_TIMEOUT)
    \/ /\ j = i + 1
       /\ presses[i].button # presses[j].button
       /\ Gap(i) # DUAL_BUTTON_TIMEOUT
       /\ Gap(i) < CLICK_TIMEOUT

ExpectedToken(i, j) ==
    IF SameButton(i, j) THEN RepeatToken(presses[i].button, j - i + 1)
    ELSE IF Gap(i) < DUAL_BUTTON_TIMEOUT THEN "button_double"
    ELSE presses[i].button \o "_" \o presses[j].button

C7_Independence ==
    \A m \in 1..(NumPresses - 1) :
        (/\ Gap(m) > CLICK_TIMEOUT
         /\ Recognised(1, m)
         /\ Recognised(m + 1, NumPresses)
         /\ Settled) =>
            /\ Tokens = <<ExpectedToken(1, m), ExpectedToken(m + 1, NumPresses)>>
            /\ events[1].time < presses[m + 1].time
            /\ events[2].time >= presses[m + 1].time

C7_Witness ==
    /\ NumPresses = 3
    /\ presses[1].button = "on"
    /\ presses[2].button = "on"
    /\ presses[3].button = "off"
    /\ Gap(1) < CLICK_TIMEOUT
    /\ Gap(2) > CLICK_TIMEOUT
    /\ Settled
    /\ Len(events) = 2

\* C8: when the gap between a press of one button and the following press
\* of the other button equals DUAL_BUTTON_TIMEOUT, exactly one token is
\* emitted, the sequential token of the two buttons, and no dual token.
C8_BoundaryIsSequential ==
    (NumPresses = 2 /\ PairAt(1) /\ Gap(1) = DUAL_BUTTON_TIMEOUT /\ Settled) =>
        Tokens = <<IF presses[1].button = "on" THEN "on_off" ELSE "off_on">>

\* C9: a timer that was cancelled or superseded never emits: a task step
\* that emits belongs to the task its slot holds and to a task on which
\* cancel() was never called, also when cancel() was called at the instant
\* the sleep was due and before the task resumed.
C9_CancelledTimerNeverEmits ==
    [][(ready # <<>> /\ Head(ready).op = "step" /\ events' # events) =>
          /\ click_timer[Head(ready).button] = Head(ready).task
          /\ \A c \in cancel_requested : c.task # Head(ready).task]_vars

C9_Witness ==
    \E c \in cancel_requested :
        /\ c.state = "woken"
        /\ tasks[c.task].state = "done"
        /\ \A i \in 1..Len(events) : events[i].task # c.task

\* C10: three or more presses of both buttons with every gap at least
\* DUAL_BUTTON_TIMEOUT and shorter than CLICK_TIMEOUT, then idle, produce
\* exactly one token, the names of all pressed buttons joined in arrival
\* order.
C10_JoinedSequence ==
    (/\ NumPresses >= 3
     /\ BothButtons
     /\ \A i \in 1..(NumPresses - 1) :
            Gap(i) >= DUAL_BUTTON_TIMEOUT /\ Gap(i) < CLICK_TIMEOUT
     /\ Settled) =>
        Tokens = <<JoinedButtons(NumPresses)>>

\* the history is n two-button pairs, each with a gap shorter than
\* DUAL_BUTTON_TIMEOUT inside the pair
WholePairs(n) ==
    /\ NumPresses = 2 * n
    /\ \A i \in 1..n : PairAt(i) /\ Gap(2 * i - 1) < DUAL_BUTTON_TIMEOUT

\* C11: a mixed sequence of more than two presses whose first two presses
\* are less than DUAL_BUTTON_TIMEOUT apart and which is not a whole number
\* of simultaneous pairs produces exactly one token, the names of all
\* pressed buttons joined in arrival order, and no dual token.
C11_IrregularMixIsJoined ==
    (/\ NumPresses > 2
     /\ BothButtons
     /\ OneSequence
     /\ Gap(1) < DUAL_BUTTON_TIMEOUT
     /\ \A n \in 1..NumPresses : ~WholePairs(n)
     /\ Settled) =>
        Tokens = <<JoinedButtons(NumPresses)>>

\* n pairs, each completed less than CLICK_TIMEOUT after the one before
PairsInTime(n) ==
    /\ WholePairs(n)
    /\ \A i \in 1..(n - 1) :
           presses[2 * i + 2].time - presses[2 * i].time < CLICK_TIMEOUT

DualOrdinalToken(k) ==
    IF k = 1 THEN "button_double"
    ELSE "button_double_" \o OrdinalNames[k]

\* C12 as stated: n consecutive simultaneous pairs produce the dual token
\* of min(n, 5), so four pairs give the dual quadruple token.
C12_DualCapIsFive ==
    \A n \in 1..NumPresses :
        (PairsInTime(n) /\ Settled) => Tokens = <<DualOrdinalToken(Min(n, 5))>>

\* C12 as amended: when the dual timer expires having counted n
\* simultaneous pairs, it emits exactly one token, the dual token of
\* min(n, 3): three or more pairs give the dual triple token.
C12_DualCapIsThree ==
    [][(/\ ready # <<>>
        /\ Head(ready).op = "step"
        /\ tasks[Head(ready).task].state = "woken"
        /\ tasks[Head(ready).task].coro = "process_dual_clicks"
        /\ ready' = Tail(ready)) =>
          /\ Len(events') = Len(events) + 1
          /\ events'[Len(events')].token =
                 DualOrdinalToken(Min(click_count["dual"], 3))]_vars

C12_Witness ==
    /\ PairsInTime(4)
    /\ Settled
    /\ Tokens = <<"button_double_remote_button_triple_press">>

\* C13: at most one settle timer is pending at any time.
LiveTasks == {id \in 1..Len(tasks) : tasks[id].state \in LiveStates}

C13_AtMostOneTimer == Cardinality(LiveTasks) <= 1

\* the presses _handle_click has run for: all but those still queued
IngestedPresses ==
    NumPresses
        - Cardinality({i \in 1..Len(ready) : ready[i].op = "handle_click"})

LastIngestTime == presses[IngestedPresses].time

\* C14: every press cancels every pending settle timer and restarts the
\* settle period: the step that ingests a press leaves no timer pending
\* that was pending before it, and a timer step emits a token only once
\* CLICK_TIMEOUT has elapsed since the last ingested press.
C14_PressCancelsEveryTimer ==
    [][/\ HandleClick =>
            \A id \in 1..Len(tasks) :
                tasks[id].state \in LiveStates =>
                    tasks'[id].state \notin LiveStates
       /\ (ProcessClicks \/ ProcessDualClicks) =>
            now >= LastIngestTime + CLICK_TIMEOUT]_vars

\* C15: no token is emitted while a press is being ingested: every
\* emission is made by a timer step, at least CLICK_TIMEOUT after the last
\* ingested press, the two-button sequential tokens included.
C15_EmissionOnlyAtExpiry ==
    [][events' # events =>
          /\ ProcessClicks \/ ProcessDualClicks
          /\ now >= LastIngestTime + CLICK_TIMEOUT]_vars

\* C16: bounded response: once more than CLICK_TIMEOUT has passed since
\* the last press, a token was emitted at or after that press and no later
\* than CLICK_TIMEOUT after it, and no timer is left pending.
C16_BoundedResponse ==
    Settled =>
        /\ \E i \in 1..Len(events) :
               /\ events[i].time >= LastPressTime
               /\ events[i].time <= LastPressTime + CLICK_TIMEOUT
        /\ \A i \in 1..Len(events) :
               events[i].time <= LastPressTime + CLICK_TIMEOUT
        /\ LiveTasks = {}

C16_Witness ==
    /\ Settled
    /\ NumPresses = 1
    /\ Len(events) = 1
    /\ events[1].time = LastPressTime + CLICK_TIMEOUT

\* C17: whenever a timer is pending, the click count of its slot is at
\* least 1, and a step that emits a token clears the counts it analysed in
\* that same step: a timer step the count of its slot, _handle_click the
\* counts of both buttons.
C17_CountWhilePendingAndCleared ==
    /\ [](\A id \in LiveTasks : click_count[tasks[id].button] >= 1)
    /\ [][events' # events =>
             IF Head(ready).op = "step"
             THEN click_count'[Head(ready).button] = 0
             ELSE click_count'["on"] = 0 /\ click_count'["off"] = 0]_vars

C17_Witness ==
    /\ \E i \in 1..Len(events) :
           /\ events[i].task # NoTask
           /\ tasks[events[i].task].state = "done"
           /\ click_count[tasks[events[i].task].button] = 0
    /\ \E id \in LiveTasks : click_count[tasks[id].button] >= 1

\* C18: once a sequence is finalized and no timer is pending, the state
\* equals the freshly constructed one: all click counts are 0, no timer
\* handle is held and no last-press timestamp remains.
C18_FreshStateAfterFinalization ==
    (Settled /\ LiveTasks = {}) =>
        /\ \A s \in Slots : click_count[s] = 0
        /\ \A s \in Slots : click_timer[s] = NoTask
        /\ \A b \in Buttons : last_button_press[b] = NoTime

\* C20: when a press arrives exactly CLICK_TIMEOUT after the previous
\* press, the earlier sequence is finalized on its own and the new press
\* starts a new sequence, whichever of the press and the timer expiry the
\* loop runs first: two presses CLICK_TIMEOUT apart give the single-press
\* token of the first and then the single-press token of the second.
C20_PressAtExpiryStartsNewSequence ==
    (NumPresses = 2 /\ Gap(1) = CLICK_TIMEOUT /\ Settled) =>
        Tokens = <<RepeatToken(presses[1].button, 1),
                   RepeatToken(presses[2].button, 1)>>

\* ON and OFF exchanged in a slot name, a token, a per-slot field, a
\* per-button field, a sequence of loop entries or tasks, the cluster
SwapSlot(slot) == IF slot \in Buttons THEN OtherButton(slot) ELSE slot

SwapToken(token) ==
    IF \E b \in Buttons, n \in 1..5 : token = RepeatToken(b, n)
    THEN LET w == CHOOSE w \in Buttons \X (1..5) :
                      token = RepeatToken(w[1], w[2])
         IN  RepeatToken(OtherButton(w[1]), w[2])
    ELSE IF token = "on_off" THEN "off_on"
    ELSE IF token = "off_on" THEN "on_off"
    ELSE token

RECURSIVE SwapTokens(_)
SwapTokens(tokens) ==
    IF tokens = <<>> THEN <<>>
    ELSE <<SwapToken(Head(tokens))>> \o SwapTokens(Tail(tokens))

SwapSlots(f) == [s \in Slots |-> f[SwapSlot(s)]]

SwapButtons(f) == [b \in Buttons |-> f[OtherButton(b)]]

RECURSIVE SwapEntries(_)
SwapEntries(q) ==
    IF q = <<>> THEN <<>>
    ELSE <<[Head(q) EXCEPT !.button = SwapSlot(@)]>> \o SwapEntries(Tail(q))

SwapCluster(st) ==
    [click_count |-> SwapSlots(st.click_count),
     click_timer |-> SwapSlots(st.click_timer),
     last_button_press |-> SwapButtons(st.last_button_press),
     first_button_in_dual |-> SwapSlot(st.first_button_in_dual),
     tasks |-> SwapEntries(st.tasks)]

\* C19: the classifier is symmetric in the two buttons. Whenever a press
\* is about to be ingested, ingesting the other button in the state with
\* ON and OFF exchanged gives the exchanged counts, timers, timestamps,
\* tasks and queued steps and emits the exchanged tokens, equal timestamps
\* included; whenever a timer is about to emit, the exchanged state emits
\* the exchanged token, and a dual token is its own exchange.
C19_ButtonSymmetry ==
    /\ (ready # <<>> /\ Head(ready).op = "handle_click") =>
           LET r == handle_click_state(Head(ready).button, Cluster)
               m == handle_click_state(OtherButton(Head(ready).button),
                                       SwapCluster(Cluster))
           IN  /\ m.click_count = SwapSlots(r.click_count)
               /\ m.click_timer = SwapSlots(r.click_timer)
               /\ m.last_button_press = SwapButtons(r.last_button_press)
               /\ m.tasks = SwapEntries(r.tasks)
               /\ m.queued = SwapEntries(r.queued)
               /\ m.emitted = SwapTokens(r.emitted)
               /\ m.requests = r.requests
    /\ (/\ ready # <<>>
        /\ Head(ready).op = "step"
        /\ tasks[Head(ready).task].state = "woken") =>
           LET slot == Head(ready).button
           IN  IF slot = "dual"
               THEN SwapTokens(DualTokens(click_count[slot]))
                        = DualTokens(click_count[slot])
               ELSE SwapTokens(ClickTokens(slot, click_count[slot]))
                        = ClickTokens(OtherButton(slot), click_count[slot])

\* a press is about to be ingested while the other button carries the
\* same timestamp and its timer is pending
C19_Witness ==
    /\ ready # <<>>
    /\ Head(ready).op = "handle_click"
    /\ last_button_press[OtherButton(Head(ready).button)] = now
    /\ click_timer[OtherButton(Head(ready).button)] \in LiveTasks

\* the request a step has just received, when the step is a request
NewRequest == requests'[Len(requests')]

\* C21: every ON (0x01) or OFF (0x00) request on a device endpoint returns
\* None instead of the default handler's result, and does nothing but
\* queue one _handle_click for the matching button: no count, timer,
\* timestamp or token changes in that step.
C21_ButtonRequestSuppressed ==
    [][(/\ Len(requests') = Len(requests) + 1
        /\ NewRequest.on_device
        /\ NewRequest.command_id \in {0, 1}) =>
          LET button == IF NewRequest.command_id = 1 THEN "on" ELSE "off"
          IN  /\ NewRequest.returned = "None"
              /\ presses' = Append(presses, [button |-> button, time |-> now])
              /\ ready' = Append(ready, [op |-> "handle_click",
                                         button |-> button, task |-> NoTask])
              /\ UNCHANGED <<click_count, click_timer, last_button_press,
                             tasks, events>>]_vars

C21_Witness ==
    /\ \E i \in 1..Len(requests) :
           /\ requests[i].on_device
           /\ requests[i].command_id = 1
           /\ requests[i].returned = "None"
    /\ PassedThrough # {}
    /\ Tokens = <<"on_remote_button_short_press">>

\* C26: a request whose command is neither ON nor OFF, or any request on
\* an endpoint without a device IEEE, returns the default handler's result
\* and changes no click count, timer, timestamp, task or queued step and
\* emits no token.
C26_OtherRequestPassesThrough ==
    [][(/\ Len(requests') = Len(requests) + 1
        /\ ~(NewRequest.on_device /\ NewRequest.command_id \in {0, 1})) =>
          /\ NewRequest.returned = "super"
          /\ UNCHANGED <<click_count, click_timer, last_button_press,
                         last_dual_press, first_button_in_dual, tasks, ready,
                         events, presses, cancel_requested>>]_vars

\* an ON command on a group endpoint was passed through while a timer with
\* a counted press was pending
C26_Witness ==
    /\ requests # <<>>
    /\ requests[Len(requests)].command_id = 1
    /\ ~requests[Len(requests)].on_device
    /\ requests[Len(requests)].returned = "super"
    /\ \E id \in LiveTasks : click_count[tasks[id].button] >= 1

\* C23: the thresholds are per-instance values: with click_timeout and
\* dual_button_timeout set on the instance, a settle timer sleeps
\* click_timeout, and a press that finds a timestamp of the other button
\* is taken as a dual press exactly when the two are less than
\* dual_button_timeout apart.
C23_InstanceThresholds ==
    [][/\ ProcessStart =>
            tasks'[Head(ready).task].due = now + click_timeout
       /\ (HandleClick
               /\ last_button_press[OtherButton(Head(ready).button)] # NoTime) =>
            ((now - last_button_press[OtherButton(Head(ready).button)]
                  < dual_button_timeout)
               <=> (ready' # <<>>
                      /\ ready'[Len(ready')].op = "handle_dual_click"))]_vars

\* C24: device_automation_triggers defines exactly 21 triggers: 5 repeat
\* levels for each of the 2 buttons, 3 dual levels, the 2 two-button
\* sequences and the 6 non-uniform three-button sequences, each with the
\* token the classifier emits as its command.
C24_TwentyOneTriggers ==
    /\ \A i \in 1..Len(events) : events[i].token \in TriggerCommands
    /\ Cardinality(device_automation_triggers) = 21
    /\ \A b \in Buttons, n \in 1..5 : RepeatToken(b, n) \in TriggerCommands
    /\ \A n \in 1..3 : DualOrdinalToken(n) \in TriggerCommands
    /\ {"on_off", "off_on", "on_on_off", "on_off_on", "on_off_off",
        "off_on_on", "off_on_off", "off_off_on"} \subseteq TriggerCommands

\* a token of some trigger is among the emitted tokens
EmittedToken(command) == \E i \in 1..Len(events) : events[i].token = command

\* C25: the tokens the classifier can emit are the commands registered in
\* device_automation_triggers: every emitted token is a registered
\* command, and for every registered command the gesture of its trigger
\* makes the classifier emit it.
C25_TokensAreTriggerCommands ==
    /\ [](\A i \in 1..Len(events) : events[i].token \in TriggerCommands)
    /\ (Scripted => <>EmittedToken(env))

C25_Witness ==
    /\ env = "button_double_remote_button_triple_press"
    /\ Len(presses) = 6
    /\ EmittedToken(env)

\* the number of presses a repeat token stands for
TokenLevel(token) ==
    CHOOSE n \in 1..5 : \E b \in Buttons : token = RepeatToken(b, n)

RECURSIVE SumLevels(_)
SumLevels(tokens) ==
    IF tokens = <<>> THEN 0
    ELSE TokenLevel(Head(tokens)) + SumLevels(Tail(tokens))

\* no press meets a timestamp of the other button that makes it a dual or
\* a sequential press
IndependentButtons ==
    \A i, j \in 1..NumPresses :
        (i < j /\ presses[i].button # presses[j].button) =>
            \/ presses[j].time - presses[i].time = DUAL_BUTTON_TIMEOUT
            \/ presses[j].time - presses[i].time >= CLICK_TIMEOUT

\* C27: timer-expiry analysis is atomic with respect to press handling.
\* The step that emits at an expiry names the token from the count it
\* finds, resets that count and runs no press handler: the queued
\* handlers stay queued and every other count, timestamp and timer is as
\* before. So for presses that the buttons count independently, once all
\* timers have fired the emitted tokens stand for exactly the presses
\* ingested: none is lost and none is counted twice.
C27_AtomicExpiry ==
    /\ [][(ProcessClicks \/ ProcessDualClicks) =>
             LET slot == Head(ready).button
             IN  /\ events' = Append(events,
                        [token |-> IF slot = "dual"
                                   THEN DualOrdinalToken(Min(click_count[slot], 3))
                                   ELSE RepeatToken(slot, click_count[slot]),
                         time |-> now, task |-> Head(ready).task])
                 /\ click_count' = [click_count EXCEPT ![slot] = 0]
                 /\ ready' = Tail(ready)
                 /\ UNCHANGED <<last_button_press, presses>>
                 /\ \A s \in Slots \ {slot} : click_timer'[s] = click_timer[s]]_vars
    /\ []((IndependentButtons /\ Settled /\ NumPresses <= 5) =>
             SumLevels(Tokens) = NumPresses)

\* a press of one button was queued when the timer of the other expired,
\* and both were counted
C27_Witness ==
    /\ NumPresses = 3
    /\ BothButtons
    /\ IndependentButtons
    /\ Settled
    /\ \E i \in 1..2 : Gap(i) = DUAL_BUTTON_TIMEOUT
    /\ SumLevels(Tokens) = 3

\* the live tasks of a slot
LiveIn(slot) == {id \in LiveTasks : tasks[id].button = slot}

\* C28: each of the slots on, off and dual has at most one live timer
\* task, the one the slot holds: a task replaced in its slot has fired or
\* been cancelled.
C28_OneLiveTimerPerSlot ==
    \A s \in Slots : LiveIn(s) \subseteq {click_timer[s]}

\* a timer was cancelled before it started and its slot holds a live one
C28_Witness ==
    \E c \in cancel_requested :
        /\ c.state = "new"
        /\ LiveIn(tasks[c.task].button) # {}

\* C29: a click count greater than 0 in a slot implies that the slot
\* holds a live timer.
C29_CountHasLiveTimer ==
    \A s \in Slots : click_count[s] > 0 => click_timer[s] \in LiveIn(s)

\* a dual press has reset both buttons while the dual count is pending
C29_Witness ==
    /\ click_count["dual"] >= 1
    /\ click_count["on"] = 0
    /\ click_count["off"] = 0
    /\ \E c \in cancel_requested : tasks[c.task].button \in Buttons

\* no timer is live, no step is queued and every count is 0
Quiescent ==
    /\ LiveTasks = {}
    /\ ready = <<>>
    /\ \A s \in Slots : click_count[s] = 0

\* C30: once presses stop arriving the classifier reaches quiescence and
\* stays there: every live timer fires, all three click counts return to
\* 0 and no timer remains live.
C30_Quiescence == <>[]Quiescent

C30_Witness ==
    /\ Quiescent
    /\ NumPresses = MaxPresses
    /\ \E i \in 1..Len(events) : events[i].token = COMMAND_BUTTON_DOUBLE

----------------------------------------------------------------------------
(* Sonoff TRVZB: the arithmetic of the position conversions.                *)
(*                                                                         *)
(* _virtual_to_real computes min + (virtual_pos / 100) * (max - min) in    *)
(* binary64 and truncates the result with int().  The values stay below    *)
(* 2^8 and the quotient virtual_pos / 100 is at least 2^-7, so a number    *)
(* with 60 binary places holds every intermediate result exactly.  A       *)
(* number is kept as four digits in base 2^20: the integer part and three  *)
(* digits after the point.  Each operation is followed by the rounding of  *)
(* binary64: to 53 significant bits, to nearest, ties to even.             *)

MANT_DIG == 53        \* sys.float_info.mant_dig
LIMB_BITS == 20
Limb == 2^LIMB_BITS

Max(a, b) == IF a > b THEN a ELSE b

\* the number of binary digits of n
BitLen(n) == CHOOSE k \in 0..30 : n < 2^k /\ (k = 0 \/ n >= 2^(k - 1))

\* the four digits after the carries have been passed up
Carried(i, h, m, l) ==
    LET m1 == m + l \div Limb
        h1 == h + m1 \div Limb
    IN  [i |-> i + h1 \div Limb, h |-> h1 % Limb, m |-> m1 % Limb,
         l |-> l % Limb]

\* the binary64 nearest to x; inexact says that x stands for a number
\* that has more digits, not all 0, after its last place
RoundToDouble(x, inexact) ==
    LET len == IF x.i > 0 THEN 3 * LIMB_BITS + BitLen(x.i)
               ELSE 2 * LIMB_BITS + BitLen(x.h)
        unit == 2^(len - MANT_DIG)
        low == x.l % unit
        odd == (x.l \div unit) % 2 = 1
        up == \/ 2 * low > unit
              \/ 2 * low = unit /\ (inexact \/ odd)
    IN  IF len <= MANT_DIG THEN x
        ELSE Carried(x.i, x.h, x.m, x.l - low + (IF up THEN unit ELSE 0))

\* num / den of two ints, 0 < num < den
TrueDiv(num, den) ==
    LET r1 == (num * Limb) % den
        r2 == (r1 * Limb) % den
    IN  RoundToDouble([i |-> 0, h |-> (num * Limb) \div den,
                       m |-> (r1 * Limb) \div den,
                       l |-> (r2 * Limb) \div den],
                      (r2 * Limb) % den # 0)

\* x * n of a float and an int, n > 0
FloatMul(x, n) ==
    RoundToDouble(Carried(x.i * n, x.h * n, x.m * n, x.l * n), FALSE)

\* n + x of an int and a float, n >= 0
FloatAdd(n, x) == RoundToDouble([x EXCEPT !.i = x.i + n], FALSE)

\* int(x) of a float, x >= 0
FloatInt(x) == x.i

\* int(num / den) of two ints: the quotient is either a whole number or
\* at least 1/|den| away from one, far more than the rounding of the
\* division, so int() gives the exact quotient truncated towards 0
IntTrueDiv(num, den) ==
    LET q == Abs(num) \div Abs(den)
    IN  IF (num < 0) = (den < 0) THEN q ELSE -q

----------------------------------------------------------------------------
(* _virtual_to_real and _real_to_virtual *)

\* with max_limit < min_limit the clamp max(min, min(int(real), max))
\* gives min_limit whatever int(real) is
virtual_to_real(virtual_pos, min_limit, max_limit) ==
    IF max_limit = min_limit THEN min_limit
    ELSE IF virtual_pos = 0 THEN 0
    ELSE IF virtual_pos = 100 THEN 100
    ELSE IF max_limit < min_limit THEN min_limit
    ELSE LET real == FloatAdd(min_limit,
                         FloatMul(TrueDiv(virtual_pos, 100),
                                  max_limit - min_limit))
         IN  Max(min_limit, Min(FloatInt(real), max_limit))

real_to_virtual(real_pos, min_limit, max_limit) ==
    IF max_limit = min_limit THEN 0
    ELSE LET virtual == IntTrueDiv((real_pos - min_limit) * 100,
                                   max_limit - min_limit)
         IN  Max(0, Min(virtual, 100))

----------------------------------------------------------------------------
(* Sonoff TRVZB: bounds and inputs *)

MaxWriteAttrs == 2     \* attributes in one write_attributes call
MaxReadAttrs == 2      \* attributes in one read_attributes call

\* the calibration limits and the positions that are written and reported
LimitValues == {20, 80}
PositionValues == {0, 29, 100}

\* the host names the attributes of a call by id or by name
ByName == env = "valve_names"

AttrValues(id) ==
    IF id \in {valve_min_limit_id, valve_max_limit_id} THEN LimitValues
    ELSE IF id = child_lock_id THEN {1}
    ELSE PositionValues

DistinctIds(attributes) ==
    \A i, j \in 1..Len(attributes) :
        attributes[i].id = attributes[j].id => i = j

\* the attribute dicts of up to n entries, in iteration order
RECURSIVE Writes(_)
Writes(n) ==
    IF n = 0 THEN {<<>>}
    ELSE LET shorter == Writes(n - 1)
             longer == {Append(w, [id |-> id, value |-> value]) :
                            w \in shorter,
                            id \in virtual_attrs \cup {child_lock_id},
                            value \in PositionValues \cup LimitValues \cup {1}}
         IN  shorter \cup
             {w \in longer : /\ DistinctIds(w)
                             /\ w[Len(w)].value \in AttrValues(w[Len(w)].id)}

WriteDicts == Writes(MaxWriteAttrs) \ {<<>>}

\* the attributes that are read
ReadableAttrs ==
    {valve_min_limit_id, virtual_valve_position_id, valve_opening_degree_id}

\* the attribute lists of up to n entries
RECURSIVE Reads(_)
Reads(n) ==
    IF n = 0 THEN {<<>>}
    ELSE LET shorter == Reads(n - 1)
         IN  shorter \cup
             {r \in {Append(w, [id |-> id]) : w \in shorter,
                                              id \in ReadableAttrs} :
                  DistinctIds(r)}

ReadLists == Reads(MaxReadAttrs) \ {<<>>}

\* the opening degrees the device can report: any of the positions, or
\* the degree it has just been sent
ReportValues ==
    PositionValues \cup
    {e.value : e \in {w \in call.device_write :
                          w.id = valve_opening_degree_id}}

----------------------------------------------------------------------------
(* _update_attribute *)

\* the fields of the cluster that the operations read and write, with the
\* calls made so far on the parent's _update_attribute and the
\* processed_attrs of a write
Sonoff ==
    [valve_min_limit |-> valve_min_limit, valve_max_limit |-> valve_max_limit,
     attr_cache |-> attr_cache, updates |-> <<>>, processed_attrs |-> {}]

\* an override that leaves the internal limits alone
SyncedLimit_Never(limit, own_id, attrid, value) == limit

\* if attrid == 0x7000: self._valve_min_limit = value, and the same for
\* 0x7001 and the upper limit
SyncedLimit(limit, own_id, attrid, value) ==
    IF attrid = own_id THEN value ELSE limit

\* a virtual update that falls through to the notification of attrid
ParentUpdates_NoReturn(attrid, value, changed, virtual) ==
    IF changed
    THEN <<[attrid |-> virtual_valve_position_id, value |-> virtual],
           [attrid |-> attrid, value |-> value]>>
    ELSE <<[attrid |-> attrid, value |-> value]>>

\* super()._update_attribute(0x7002, virtual); return, or
\* super()._update_attribute(attrid, value)
ParentUpdates(attrid, value, changed, virtual) ==
    IF changed
    THEN <<[attrid |-> virtual_valve_position_id, value |-> virtual]>>
    ELSE <<[attrid |-> attrid, value |-> value]>>

update_attribute_state(attrid, value, st) ==
    LET cache1 == IF attrid \in CachedAttrs
                  THEN [st.attr_cache EXCEPT ![attrid] = value]
                  ELSE st.attr_cache
        min1 == SyncedLimit(st.valve_min_limit, valve_min_limit_id,
                            attrid, value)
        max1 == SyncedLimit(st.valve_max_limit, valve_max_limit_id,
                            attrid, value)
        virtual == real_to_virtual(value, min1, max1)
        changed == /\ attrid = valve_opening_degree_id
                   /\ cache1[virtual_valve_position_id] # virtual
    IN  [st EXCEPT
            !.attr_cache =
                IF changed
                THEN [cache1 EXCEPT ![virtual_valve_position_id] = virtual]
                ELSE cache1,
            !.valve_min_limit = min1,
            !.valve_max_limit = max1,
            !.updates = @ \o ParentUpdates(attrid, value, changed, virtual)]

\* a call of _update_attribute from outside: a report of the device or
\* an update by the host
update_attribute(attrid, value) ==
    /\ env \in {"valve_ids", "valve_names"}
    /\ \E st \in {update_attribute_state(attrid, value, Sonoff)} :
           /\ valve_min_limit' = st.valve_min_limit
           /\ valve_max_limit' = st.valve_max_limit
           /\ attr_cache' = st.attr_cache
           /\ call' = [NoCall("_update_attribute") EXCEPT
                          !.attributes = <<[id |-> attrid, value |-> value]>>,
                          !.updates = st.updates]
    /\ UNCHANGED <<rodret_vars, env>>

----------------------------------------------------------------------------
(* write_attributes *)

\* processed_attrs[id] = value
Put(processed_attrs, id, value) ==
    {e \in processed_attrs : e.id # id} \cup {[id |-> id, value |-> value]}

\* a closing degree that repeats the opening degree
ClosingDegree_Same(real_value) == real_value

\* processed_attrs[0x600C] = 100 - real_value
ClosingDegree(real_value) == 100 - real_value

\* the body of the loop over attributes.items(); a name has been replaced
\* by the id of the attribute it names
write_attribute_state(attr_id, value, st) ==
    IF attr_id = virtual_valve_position_id
    THEN LET real_value == virtual_to_real(value, st.valve_min_limit,
                                           st.valve_max_limit)
         IN  update_attribute_state(attr_id, value,
                 [st EXCEPT !.processed_attrs =
                     Put(Put(@, valve_opening_degree_id, real_value),
                         valve_closing_degree_id, ClosingDegree(real_value))])
    ELSE IF attr_id = valve_min_limit_id
    THEN update_attribute_state(attr_id, value,
                                [st EXCEPT !.valve_min_limit = value])
    ELSE IF attr_id = valve_max_limit_id
    THEN update_attribute_state(attr_id, value,
                                [st EXCEPT !.valve_max_limit = value])
    ELSE [st EXCEPT !.processed_attrs = Put(@, attr_id, value)]

RECURSIVE write_attributes_state(_, _)
write_attributes_state(attributes, st) ==
    IF attributes = <<>> THEN st
    ELSE write_attributes_state(
             Tail(attributes),
             write_attribute_state(Head(attributes).id,
                                   Head(attributes).value, st))

\* the whole call: the loop, then super().write_attributes(processed_attrs)
\* if there is anything to send, or a SUCCESS record
write_attributes(attributes) ==
    /\ env \in {"valve_ids", "valve_names"}
    /\ \E st \in {write_attributes_state(attributes, Sonoff)} :
           /\ valve_min_limit' = st.valve_min_limit
           /\ valve_max_limit' = st.valve_max_limit
           /\ attr_cache' = st.attr_cache
           /\ call' = [NoCall("write_attributes") EXCEPT
                          !.attributes = attributes,
                          !.device_write = st.processed_attrs,
                          !.updates = st.updates,
                          !.returned = IF st.processed_attrs # {}
                                       THEN "super" ELSE "SUCCESS"]
    /\ UNCHANGED <<rodret_vars, env>>

----------------------------------------------------------------------------
(* read_attributes *)

\* a not in virtual_attrs: a name is never one of the three ids
IsReal(id) == ByName \/ id \notin virtual_attrs

\* real_attrs
RealAttrs(attributes) == SelectSeq(attributes, LAMBDA a : IsReal(a.id))

\* the records appended for the virtual attributes
RECURSIVE CacheRecords(_)
CacheRecords(attributes) ==
    IF attributes = <<>> THEN <<>>
    ELSE (IF IsReal(Head(attributes).id) THEN <<>>
          ELSE <<[attrid |-> Head(attributes).id, status |-> "SUCCESS",
                  value |-> attr_cache[Head(attributes).id]]>>)
         \o CacheRecords(Tail(attributes))

read_attributes(attributes) ==
    /\ env \in {"valve_ids", "valve_names"}
    /\ call' = [NoCall("read_attributes") EXCEPT
                   !.attributes = attributes,
                   !.device_read = RealAttrs(attributes),
                   !.returned = IF RealAttrs(attributes) # <<>>
                                THEN "super" ELSE "list",
                   !.records = CacheRecords(attributes)]
    /\ UNCHANGED <<rodret_vars, env, valve_min_limit, valve_max_limit,
                   attr_cache>>

----------------------------------------------------------------------------
(* The Sonoff cluster under a host that writes and reads attributes, by id *)
(* or by name, and a device that reports them                              *)

InitValve ==
    /\ InitCluster
    /\ NoOverrides
    /\ InitSonoff
    /\ env \in {"valve_ids", "valve_names"}

NextValve ==
    \/ \E attributes \in WriteDicts : write_attributes(attributes)
    \/ \E attributes \in ReadLists : read_attributes(attributes)
    \/ \E value \in ReportValues :
           update_attribute(valve_opening_degree_id, value)
    \/ \E attrid \in virtual_attrs \cup {child_lock_id} :
           \E value \in AttrValues(attrid) : update_attribute(attrid, value)

SpecValve == InitValve /\ [][NextValve]_vars

ValveTypeOK ==
    /\ valve_min_limit \in 0..100
    /\ valve_max_limit \in 0..100
    /\ \A a \in CachedAttrs : attr_cache[a] \in 0..100
    /\ call.op \in {"__init__", "write_attributes", "read_attributes",
                    "_update_attribute"}

----------------------------------------------------------------------------
(* Sonoff TRVZB: the calls and what they sent *)

\* the virtual positions and the opening degrees
Percent == 0..100

\* the value sent to the device for an attribute; Unset if none was sent
Forwarded(c, id) ==
    IF \E e \in c.device_write : e.id = id
    THEN (CHOOSE e \in c.device_write : e.id = id).value
    ELSE Unset

\* the places of an attribute in the arguments of a call
PlacesOf(c, id) == {i \in 1..Len(c.attributes) : c.attributes[i].id = id}

Writes7002(c) ==
    c.op = "write_attributes" /\ PlacesOf(c, virtual_valve_position_id) # {}

\* the value of a limit when the entry at place k of a write is reached:
\* the value an earlier entry of the same write gave it, or the value it
\* had before the call
LimitAt(c, k, own_id, before) ==
    IF \E i \in PlacesOf(c, own_id) : i < k
    THEN c.attributes[CHOOSE i \in PlacesOf(c, own_id) : i < k].value
    ELSE before

IsReport(c) ==
    /\ c.op = "_update_attribute"
    /\ c.attributes[1].id = valve_opening_degree_id

\* C31: _virtual_to_real maps every virtual position 0..100 into the
\* calibrated range [valve_min_limit, valve_max_limit], for every pair of
\* limits with 0 <= valve_min_limit <= valve_max_limit <= 100.
C31_RealWithinLimits ==
    (0 <= valve_min_limit /\ valve_min_limit <= valve_max_limit
                          /\ valve_max_limit <= 100) =>
        \A v \in Percent :
            LET real == virtual_to_real(v, valve_min_limit, valve_max_limit)
            IN  valve_min_limit <= real /\ real <= valve_max_limit

C33_LimitsEqualCache ==
    /\ valve_min_limit = attr_cache[valve_min_limit_id]
    /\ valve_max_limit = attr_cache[valve_max_limit_id]

\* an update from outside has moved both limits
C33_Witness ==
    /\ call.op = "_update_attribute"
    /\ call.attributes[1].id = valve_max_limit_id
    /\ valve_max_limit = 20
    /\ valve_min_limit = 80

\* C34: the virtual attributes 0x7000, 0x7001 and 0x7002 are never sent
\* to the device: a write forwards none of them, a write of limits only
\* sends nothing and reports SUCCESS, and a read answers them from the
\* cache and leaves them out of the device read.
C34_VirtualAttrsStayLocal ==
    /\ \A e \in call.device_write : e.id \notin virtual_attrs
    /\ (/\ call.op = "write_attributes"
        /\ \A i \in 1..Len(call.attributes) :
               call.attributes[i].id \in {valve_min_limit_id,
                                          valve_max_limit_id})
       => call.device_write = {} /\ call.returned = "SUCCESS"
    /\ call.op = "read_attributes" =>
           /\ \A i \in 1..Len(call.device_read) :
                  call.device_read[i].id \notin virtual_attrs
           /\ \A i \in 1..Len(call.attributes) :
                  call.attributes[i].id \in virtual_attrs =>
                      \E j \in 1..Len(call.records) :
                          /\ call.records[j].attrid = call.attributes[i].id
                          /\ call.records[j].value =
                                 attr_cache[call.attributes[i].id]

\* C35: after a report of valve_opening_degree the cached virtual
\* position is _real_to_virtual of the report under the current limits,
\* and exactly one update goes to the parent: 0x7002 with the new virtual
\* position if it has changed, 0x600B with the report if not.
C35_ReportUpdatesVirtualPosition ==
    [][IsReport(call') =>
         LET r == call'.attributes[1].value
             virtual == real_to_virtual(r, valve_min_limit, valve_max_limit)
         IN  /\ attr_cache'[virtual_valve_position_id] = virtual
             /\ valve_min_limit' = valve_min_limit
             /\ valve_max_limit' = valve_max_limit
             /\ Len(call'.updates) = 1
             /\ call'.updates[1] =
                    IF attr_cache[virtual_valve_position_id] # virtual
                    THEN [attrid |-> virtual_valve_position_id,
                          value |-> virtual]
                    ELSE [attrid |-> valve_opening_degree_id, value |-> r]]_vars

\* a report between narrowed limits has changed the virtual position
C35_Witness ==
    /\ IsReport(call)
    /\ call.attributes[1].value = 29
    /\ valve_min_limit = 20
    /\ valve_max_limit = 80
    /\ call.updates = <<[attrid |-> virtual_valve_position_id, value |-> 15]>>

\* C36: the conversions round-trip: for limits 0 <= valve_min_limit <
\* valve_max_limit <= 100 and every virtual position v in 0..100,
\* _real_to_virtual(_virtual_to_real(v)) = v, so that a position written
\* through virtual_valve_position is the cached virtual position again
\* once the device reports the opening degree it was sent.
C36_RoundTrip ==
    /\ [](valve_min_limit < valve_max_limit =>
             \A v \in Percent :
                 real_to_virtual(
                     virtual_to_real(v, valve_min_limit, valve_max_limit),
                     valve_min_limit, valve_max_limit) = v)
    /\ [][(/\ valve_min_limit < valve_max_limit
           /\ Writes7002(call)
           /\ Len(call.attributes) = 1
           /\ IsReport(call')
           /\ call'.attributes[1].value =
                  Forwarded(call, valve_opening_degree_id))
          => attr_cache'[virtual_valve_position_id] =
                 call.attributes[1].value]_vars
====
